---- MODULE Spec2Model ----
(***************************************************************************)
(* Model of app/main.py of ddddocr-fastapi: the four request handlers      *)
(* (/ocr, /slide_match, /detection, /ocr/file/json), decode_image and      *)
(* get_file_size.  A worker is one running handler coroutine; a step is    *)
(* the code between two suspension points (file read, file seek) or one    *)
(* call into ocr_service.  ocr_service itself is outside main.py: each     *)
(* call to it either returns a result or raises, chosen by the             *)
(* environment.  File reads and seeks may raise, chosen by the             *)
(* environment as well.  The flags a handler only forwards to the service  *)
(* (probability, charsets, png_fix, simple_target) are part of that        *)
(* environment choice.                                                     *)
(***************************************************************************)
EXTENDS Integers, Sequences, FiniteSets, TLC

VARIABLES
    req,          \* req[w]: the parameters the handler of worker w was called with
    pc,           \* pc[w]: where the handler of worker w stands
    slot,         \* slot[w]: the image it works on (1: file/image or target, 2: background)
    fpos,         \* fpos[f]: position of the file object f
    reads,        \* reads[f]: read() calls made on f so far
    size,         \* size[w]: the local `size` of get_file_size
    image_bytes,  \* image_bytes[w]: image_bytes, or target_bytes and background_bytes
    decoded,      \* decoded[w]: the decode_image calls made so far and how they ended
    calls,        \* calls[w]: the calls made into ocr_service so far
    resps,        \* resps[w]: the responses returned so far
    env           \* env[w]: what the environment did (file operation raised, service outcome)

vars == <<req, pc, slot, fpos, reads, size, image_bytes, decoded, calls, resps, env>>

(***************************************************************************)
(* Bounds of the model.                                                    *)
(***************************************************************************)
\* longest uploaded file, in bytes
MaxFileLen == 3
\* most data characters of a base64 payload
MaxData == 4
\* most '=' characters ending a base64 payload
MaxPad == 2
\* bytes asked for by one read of get_file_size; the code asks for
\* 1024 * 1024, scaled down here so that files of MaxFileLen bytes take
\* several reads
ChunkSize == 2

Workers == {1, 2}
Slots == {1, 2}

(***************************************************************************)
(* Values.                                                                 *)
(***************************************************************************)
NoneV == [kind |-> "None"]
UploadFile(c) == [kind |-> "UploadFile", content |-> c]
StrV(s) == [kind |-> "str", s |-> s]
BytesV(b) == [kind |-> "bytes", val |-> b]

Rep(c, n) == [i \in 1..n |-> c]
Iota(n) == [i \in 1..n |-> i]

\* a string is a sequence of characters; a data-URI scheme is one token
DataPrefixes == {"data:image/", "data:application/"}

Payloads == {Rep("A", n) \o Rep("=", p) : n \in 0..MaxData, p \in 0..MaxPad}

ValidStr == StrV(<<"A", "A", "A", "=">>)
InvalidStr == StrV(<<"A">>)

\* strings a handler can receive: FastAPI hands an empty form field to the
\* handler as None, so the empty string is not among them
ImageStrings ==
    {StrV(p) : p \in Payloads \ {<<>>}}
    \cup {StrV(<<"A", ",", "A", "!", "A", "A">>)}
    \cup {StrV(<<x>>) : x \in DataPrefixes}
    \cup {StrV(<<x, "x">>) : x \in DataPrefixes}
    \cup {StrV(<<x, "x", ",">> \o Rep("A", n)) : x \in DataPrefixes, n \in 0..MaxData}
    \cup {StrV(<<"data:image/", "x", ",", "A", "A", "=", "=", ",", "A">>)}

Files == {UploadFile(Iota(n)) : n \in 0..MaxFileLen}

\* the (upload, string) pairs a client can send for one image
ImageInputs ==
    {<<NoneV, s>> : s \in ImageStrings \cup {NoneV}}
    \cup {<<f, s>> : f \in Files, s \in {NoneV, ValidStr, InvalidStr}}

Request(ep, a, b) ==
    [endpoint |-> ep, upload |-> <<a[1], b[1]>>, string |-> <<a[2], b[2]>>]

NoImage == <<NoneV, NoneV>>
NoRequest == Request("none", NoImage, NoImage)

Requests ==
    {Request(ep, a, NoImage) : ep \in {"ocr", "detection"}, a \in ImageInputs}
    \cup {Request("slide_match", a, b) : a \in ImageInputs, b \in ImageInputs}
    \cup {Request("ocr_file_json", <<f, NoneV>>, NoImage) : f \in Files}

\* texts of the exceptions ocr_service can raise
ExcTexts == {"onnx: internal detail A", "onnx: internal detail B"}
SvcOutcomes == {"ok"} \cup ExcTexts

(***************************************************************************)
(* Exceptions and responses.                                               *)
(***************************************************************************)
HTTPException(status, detail) ==
    [type |-> "HTTPException", status_code |-> status, detail |-> detail]
Exception(text) == [type |-> "Exception", text |-> text]

\* str(e): starlette's HTTPException prints "<status_code>: <detail>"
StrE(e) ==
    IF e.type = "HTTPException"
    THEN ToString(e.status_code) \o ": " \o e.detail
    ELSE e.text

APIResponse(code, message, data) ==
    [code |-> code, message |-> message, data |-> data]

\* the except clause of a handler
OnException(ep, e) ==
    IF ep = "ocr_file_json"
    THEN [status |-> 200, result |-> StrV(<<>>), msg |-> StrE(e)]
    ELSE APIResponse(500, StrE(e), NoneV)

\* the value FastAPI sends for a successful call
Result(fn, args) == [kind |-> "result", fn |-> fn, args |-> args]

(***************************************************************************)
(* Pure helpers of decode_image.                                           *)
(***************************************************************************)
\* a handler that prefers the string to the upload
OrStringFirst(a, b) == IF b.kind = "str" THEN b ELSE a

\* Python's `a or b`: an UploadFile is truthy, None is not
Or(a, b) == IF a.kind = "UploadFile" THEN a ELSE b

\* str.startswith(('data:image/', 'data:application/'))
Startswith(s) == Len(s) > 0 /\ s[1] \in DataPrefixes

RECURSIVE Split(_)
\* str.split(',')
Split(s) ==
    IF \A i \in 1..Len(s) : s[i] # ","
    THEN <<s>>
    ELSE LET i == CHOOSE k \in 1..Len(s) :
                      s[k] = "," /\ \A j \in 1..(k - 1) : s[j] # ","
         IN  <<SubSeq(s, 1, i - 1)>> \o Split(SubSeq(s, i + 1, Len(s)))

\* six-bit values of the base64 alphabet (the characters the model uses)
B64Table == [c \in {"A", "/"} |-> IF c = "A" THEN 0 ELSE 63]

Ok(v) == [ok |-> TRUE, val |-> v]
Raise(e) == [ok |-> FALSE, val |-> e]

RECURSIVE a2b_base64(_, _, _, _, _)
\* base64.b64decode(s) with validate=False, as binascii.a2b_base64 runs it:
\* characters outside the alphabet are skipped, a complete pad sequence ends
\* the parse, and an incomplete last quad raises binascii.Error
a2b_base64(s, quad_pos, pads, leftchar, out) ==
    IF s = <<>>
    THEN IF quad_pos # 0 THEN Raise(Exception("binascii.Error")) ELSE Ok(out)
    ELSE LET c == Head(s) IN
         IF c = "="
         THEN IF quad_pos >= 2 /\ quad_pos + pads + 1 >= 4
              THEN Ok(out)
              ELSE a2b_base64(Tail(s), quad_pos,
                              IF quad_pos >= 2 THEN pads + 1 ELSE pads,
                              leftchar, out)
         ELSE IF c \notin DOMAIN B64Table
         THEN a2b_base64(Tail(s), quad_pos, pads, leftchar, out)
         ELSE LET v == B64Table[c] IN
              CASE quad_pos = 0 ->
                     a2b_base64(Tail(s), 1, 0, v, out)
                [] quad_pos = 1 ->
                     a2b_base64(Tail(s), 2, 0, v % 16,
                                Append(out, (leftchar * 4 + v \div 16) % 256))
                [] quad_pos = 2 ->
                     a2b_base64(Tail(s), 3, 0, v % 4,
                                Append(out, (leftchar * 16 + v \div 4) % 256))
                [] quad_pos = 3 ->
                     a2b_base64(Tail(s), 0, 0, 0,
                                Append(out, (leftchar * 64 + v) % 256))

b64decode(s) == a2b_base64(s, 0, 0, 0, <<>>)

\* the str branch of decode_image: the bare except turns every failure
\* (IndexError of split(',')[1], binascii.Error) into HTTPException 400
decode_image_str(s) ==
    LET parts == Split(s)
        got == IF Startswith(s)
               THEN IF Len(parts) >= 2
                    THEN b64decode(parts[2])
                    ELSE Raise(Exception("IndexError"))
               ELSE b64decode(s)
    IN  IF got.ok
        THEN Ok(got.val)
        ELSE Raise(HTTPException(400, "Invalid base64 string"))

\* the branches of decode_image that do not read a file
decode_image(image) ==
    CASE image.kind = "None" -> Raise(HTTPException(400, "No image provided"))
      [] image.kind = "str" -> decode_image_str(image.s)
      [] OTHER -> Raise(HTTPException(400, "Invalid image input"))

(***************************************************************************)
(* Files.                                                                  *)
(***************************************************************************)
Min(a, b) == IF a < b THEN a ELSE b

\* get_file_size keeping `size` in one module-level variable
FrameShared(w) == 1

\* the coroutine frame that holds the locals of get_file_size called by
\* worker w: `size` is a local, one per call
Frame(w) == w

\* the file object behind upload i of the request of worker w
FileId(w, i) == <<w, i>>

\* UploadFile.read(n): at most n bytes from the position; n = -1 reads all
Read(content, pos, n) ==
    IF n < 0
    THEN SubSeq(content, pos + 1, Len(content))
    ELSE SubSeq(content, pos + 1, Min(pos + n, Len(content)))

\* get_file_size without the seek back to the start
SeekNoop(pos, offset) == pos

\* UploadFile.seek(0) of get_file_size
Seek(pos, offset) == offset

(***************************************************************************)
(* Control flow of the handlers.                                           *)
(***************************************************************************)
Stage(p, i) == [pc |-> p, slot |-> i]

\* `x_file is None and x is None` for image i of the request
Missing(q, i) == q.upload[i].kind = "None" /\ q.string[i].kind = "None"

\* /slide_match rejecting only when target and background are both missing
MissingInputBoth(q) ==
    CASE q.endpoint \in {"ocr", "detection"} -> Missing(q, 1)
      [] q.endpoint = "slide_match" -> Missing(q, 1) /\ Missing(q, 2)
      [] OTHER -> FALSE

\* the first check of a handler (lines 55, 75, 95); /ocr/file/json has none
MissingInput(q) ==
    CASE q.endpoint \in {"ocr", "detection"} -> Missing(q, 1)
      [] q.endpoint = "slide_match" -> Missing(q, 1) \/ Missing(q, 2)
      [] OTHER -> FALSE

MissingResponse(ep) ==
    IF ep = "slide_match"
    THEN APIResponse(400, "Both target and background must be provided", NoneV)
    ELSE APIResponse(400, "Either file or image must be provided", NoneV)

EmptyFileResponse ==
    APIResponse(400, "Both target and background files must not be empty", NoneV)

\* line 78, `target_file and await get_file_size(target_file) == 0 or
\* background_file and await get_file_size(background_file) == 0`, from
\* operand i on: the next upload to measure, or decoding when none is left
SizeStage(q, i) ==
    IF i <= 1 /\ q.upload[1].kind = "UploadFile" THEN Stage("get_file_size", 1)
    ELSE IF i <= 2 /\ q.upload[2].kind = "UploadFile" THEN Stage("get_file_size", 2)
    ELSE Stage("decode_image", 1)

\* what follows a handler's first check when it passes
AfterValidation(q) ==
    IF q.endpoint = "slide_match" THEN SizeStage(q, 1) ELSE Stage("decode_image", 1)

\* what follows get_file_size returning sz for upload i: size 0 makes the
\* condition of line 78 true, any other size goes on to the next operand
AfterSize(q, i, sz) ==
    IF sz = 0 THEN Stage("reject", i) ELSE SizeStage(q, i + 1)

\* /slide_match calling the service once the target is decoded
AfterDecodeTargetOnly(ep, i) == Stage("service", i)

\* what follows decode_image returning for image i: /slide_match decodes the
\* background after the target, then the handler calls the service
AfterDecode(ep, i) ==
    IF ep = "slide_match" /\ i = 1
    THEN Stage("decode_image", 2)
    ELSE Stage("service", i)

\* an except clause that calls the service again when the call raised
AfterExceptRetry(p) == IF p = "service" THEN "service" ELSE "done"

\* a handler returns from its except clause: the request is over
AfterExcept(p) == "done"

ServiceFn(ep) ==
    CASE ep = "slide_match" -> "slide_match"
      [] ep = "detection" -> "detection"
      [] OTHER -> "ocr_classification"

\* the image arguments of the service call
ServiceArgs(ep, bytes) ==
    IF ep = "slide_match" THEN <<bytes[1], bytes[2]>> ELSE <<bytes[1]>>

\* the response of a handler whose service call returned
Success(ep, result) ==
    IF ep = "ocr_file_json"
    THEN [status |-> 200, result |-> result, msg |-> ""]
    ELSE APIResponse(200, "Success", result)

NoFault == [fn |-> "none", slot |-> 0]
Fault(fn, i) == [fn |-> fn, slot |-> i]
IOError == Exception("I/O operation on closed file")

(***************************************************************************)
(* State.                                                                  *)
(***************************************************************************)
InitLocals ==
    /\ slot = [w \in Workers |-> 1]
    /\ fpos = [f \in Workers \X Slots |-> 0]
    /\ reads = [f \in Workers \X Slots |-> 0]
    /\ size = [w \in Workers |-> 0]
    /\ image_bytes = [w \in Workers |-> <<NoneV, NoneV>>]
    /\ decoded = [w \in Workers |-> <<>>]
    /\ calls = [w \in Workers |-> <<>>]
    /\ resps = [w \in Workers |-> <<>>]
    /\ env = [w \in Workers |-> [fault |-> NoFault, svc |-> "none"]]

\* one request, drawn from every input the model knows
Init ==
    /\ req \in [Workers -> Requests \cup {NoRequest}]
    /\ req[1] # NoRequest /\ req[2] = NoRequest
    /\ pc = [w \in Workers |-> IF req[w] = NoRequest THEN "idle" ELSE "start"]
    /\ InitLocals

Goto(w, st) ==
    /\ pc' = [pc EXCEPT ![w] = st.pc]
    /\ slot' = [slot EXCEPT ![w] = st.slot]
    /\ UNCHANGED resps

Return(w, r, p) ==
    /\ pc' = [pc EXCEPT ![w] = p]
    /\ resps' = [resps EXCEPT ![w] = Append(@, r)]
    /\ UNCHANGED slot

\* the first check of the handler
Validate(w) ==
    /\ pc[w] = "start"
    /\ IF MissingInput(req[w])
       THEN Return(w, MissingResponse(req[w].endpoint), "done")
       ELSE Goto(w, AfterValidation(req[w]))
    /\ UNCHANGED <<req, fpos, reads, size, image_bytes, decoded, calls, env>>

\* get_file_size: `chunk = await file.read(1024 * 1024)`, then the test of
\* the chunk; a read that raises makes get_file_size return 0
ReadChunk(w) ==
    /\ pc[w] = "get_file_size"
    /\ LET i == slot[w]
           f == FileId(w, i)
           content == req[f[1]].upload[f[2]].content
           chunk == Read(content, fpos[f], ChunkSize)
       IN  /\ reads' = [reads EXCEPT ![f] = @ + 1]
           /\ \/ /\ chunk # <<>>
                 /\ fpos' = [fpos EXCEPT ![f] = @ + Len(chunk)]
                 /\ size' = [size EXCEPT ![Frame(w)] = @ + Len(chunk)]
                 /\ UNCHANGED <<pc, slot, resps, env>>
              \/ /\ chunk = <<>>
                 /\ Goto(w, Stage("seek", i))
                 /\ UNCHANGED <<fpos, size, env>>
              \/ /\ env' = [env EXCEPT ![w].fault = Fault("get_file_size", i)]
                 /\ Return(w, EmptyFileResponse, "done")
                 /\ UNCHANGED <<fpos, size>>
    /\ UNCHANGED <<req, image_bytes, decoded, calls>>

\* get_file_size: `await file.seek(0)` and `return size`, then the rest of
\* line 78; a seek that raises makes get_file_size return 0
SeekFile(w) ==
    /\ pc[w] = "seek"
    /\ LET i == slot[w]
           f == FileId(w, i)
           next == AfterSize(req[w], i, size[Frame(w)])
       IN  \/ /\ fpos' = [fpos EXCEPT ![f] = Seek(@, 0)]
              /\ size' = [size EXCEPT ![Frame(w)] = 0]
              /\ IF next.pc = "reject"
                 THEN Return(w, EmptyFileResponse, "done")
                 ELSE Goto(w, next)
              /\ UNCHANGED env
           \/ /\ env' = [env EXCEPT ![w].fault = Fault("get_file_size", i)]
              /\ Return(w, EmptyFileResponse, "done")
              /\ UNCHANGED <<fpos, size>>
    /\ UNCHANGED <<req, reads, image_bytes, decoded, calls>>

\* decode_image(x_file or x) of an upload: `return await image.read()`; a
\* read that raises reaches the except clause of the handler
DecodeUpload(w) ==
    /\ pc[w] = "decode_image"
    /\ LET i == slot[w]
           q == req[w]
           image == Or(q.upload[i], q.string[i])
           f == FileId(w, i)
       IN  /\ image.kind = "UploadFile"
           /\ reads' = [reads EXCEPT ![f] = @ + 1]
           /\ \/ /\ LET content == req[f[1]].upload[f[2]].content
                        got == Read(content, fpos[f], -1)
                    IN  /\ fpos' = [fpos EXCEPT ![f] = @ + Len(got)]
                        /\ image_bytes' = [image_bytes EXCEPT ![w][i] = BytesV(got)]
                 /\ decoded' = [decoded EXCEPT ![w] =
                                  Append(@, [slot |-> i, kind |-> "UploadFile", ok |-> TRUE])]
                 /\ Goto(w, AfterDecode(q.endpoint, i))
                 /\ UNCHANGED env
              \/ /\ env' = [env EXCEPT ![w].fault = Fault("decode_image", i)]
                 /\ decoded' = [decoded EXCEPT ![w] =
                                  Append(@, [slot |-> i, kind |-> "UploadFile", ok |-> FALSE])]
                 /\ Return(w, OnException(q.endpoint, IOError), AfterExcept("decode_image"))
                 /\ UNCHANGED <<fpos, image_bytes>>
    /\ UNCHANGED <<req, size, calls>>

\* decode_image(x_file or x) of anything that is not an upload
DecodeString(w) ==
    /\ pc[w] = "decode_image"
    /\ LET i == slot[w]
           q == req[w]
           image == Or(q.upload[i], q.string[i])
           got == decode_image(image)
       IN  /\ image.kind # "UploadFile"
           /\ decoded' = [decoded EXCEPT ![w] =
                            Append(@, [slot |-> i, kind |-> image.kind, ok |-> got.ok])]
           /\ IF got.ok
              THEN /\ image_bytes' = [image_bytes EXCEPT ![w][i] = BytesV(got.val)]
                   /\ Goto(w, AfterDecode(q.endpoint, i))
              ELSE /\ Return(w, OnException(q.endpoint, got.val), AfterExcept("decode_image"))
                   /\ UNCHANGED image_bytes
    /\ UNCHANGED <<req, fpos, reads, size, calls, env>>

\* the call into ocr_service and the return statement after it, or the
\* except clause when the call raises
CallService(w) ==
    /\ pc[w] = "service"
    /\ LET ep == req[w].endpoint
           fn == ServiceFn(ep)
           args == ServiceArgs(ep, image_bytes[w])
       IN  /\ calls' = [calls EXCEPT ![w] = Append(@, [fn |-> fn, args |-> args])]
           /\ \E out \in SvcOutcomes :
                 /\ env' = [env EXCEPT ![w].svc = out]
                 /\ IF out = "ok"
                    THEN Return(w, Success(ep, Result(fn, args)), "done")
                    ELSE Return(w, OnException(ep, Exception(out)), AfterExcept("service"))
    /\ UNCHANGED <<req, fpos, reads, size, image_bytes, decoded>>

\* one step of the handler of worker w
Step(w) ==
    \/ Validate(w)
    \/ ReadChunk(w)
    \/ SeekFile(w)
    \/ DecodeUpload(w)
    \/ DecodeString(w)
    \/ CallService(w)

Next == \E w \in Workers : Step(w)

Spec == Init /\ [][Next]_vars

(***************************************************************************)
(* Concurrent requests: two handlers whose steps interleave.               *)
(***************************************************************************)
BigFile == UploadFile(Iota(MaxFileLen))
EmptyFile == UploadFile(<<>>)

ConcImages ==
    {NoImage, <<NoneV, ValidStr>>, <<NoneV, InvalidStr>>,
     <<BigFile, NoneV>>, <<EmptyFile, ValidStr>>}

ConcRequests ==
    {Request("ocr", a, NoImage) : a \in ConcImages}
    \cup {Request("detection", <<BigFile, InvalidStr>>, NoImage)}
    \cup {Request("slide_match", a, b) : a \in ConcImages, b \in ConcImages}
    \cup {Request("ocr_file_json", <<f, NoneV>>, NoImage) : f \in {BigFile, EmptyFile}}

InitConc ==
    /\ req \in [Workers -> ConcRequests]
    /\ pc = [w \in Workers |-> "start"]
    /\ InitLocals

SpecConc == InitConc /\ [][Next]_vars

(***************************************************************************)
(* A handler run from its first line to its return with nothing else       *)
(* running in between, under the environment choices e (which file          *)
(* operation raised, what the service did).                                *)
(***************************************************************************)
\* get_file_size(upload i)
SizeAlone(q, i, e) ==
    IF e.fault = Fault("get_file_size", i) THEN 0 ELSE Len(q.upload[i].content)

\* the condition of line 78
EmptyUpload(q, e) ==
    \/ q.upload[1].kind = "UploadFile" /\ SizeAlone(q, 1, e) = 0
    \/ q.upload[2].kind = "UploadFile" /\ SizeAlone(q, 2, e) = 0

\* decode_image(x_file or x) for image i
DecodeAlone(q, i, e) ==
    LET image == Or(q.upload[i], q.string[i])
    IN  IF image.kind = "UploadFile"
        THEN IF e.fault = Fault("decode_image", i)
             THEN Raise(IOError)
             ELSE Ok(image.content)
        ELSE decode_image(image)

\* <<response, calls made into the service>>
RunAlone(q, e) ==
    LET ep == q.endpoint
        d1 == DecodeAlone(q, 1, e)
        d2 == DecodeAlone(q, 2, e)
        fn == ServiceFn(ep)
    IN  IF MissingInput(q) THEN <<MissingResponse(ep), <<>>>>
        ELSE IF ep = "slide_match" /\ EmptyUpload(q, e) THEN <<EmptyFileResponse, <<>>>>
        ELSE IF ~d1.ok THEN <<OnException(ep, d1.val), <<>>>>
        ELSE IF ep = "slide_match" /\ ~d2.ok THEN <<OnException(ep, d2.val), <<>>>>
        ELSE LET args == IF ep = "slide_match"
                         THEN <<BytesV(d1.val), BytesV(d2.val)>>
                         ELSE <<BytesV(d1.val)>>
                 call == [fn |-> fn, args |-> args]
             IN  IF e.svc = "ok"
                 THEN <<Success(ep, Result(fn, args)), <<call>>>>
                 ELSE <<OnException(ep, Exception(e.svc)), <<call>>>>

(***************************************************************************)
(* Properties.                                                             *)
(***************************************************************************)
Code(r) == IF "code" \in DOMAIN r THEN r.code ELSE r.status
Message(r) == IF "message" \in DOMAIN r THEN r.message ELSE r.msg
Data(r) == IF "data" \in DOMAIN r THEN r.data ELSE r.result

Active == {w \in Workers : req[w] # NoRequest}
Done(w) == pc[w] = "done"
\* the images a handler decodes
Images(ep) == IF ep = "slide_match" THEN {1, 2} ELSE {1}
IsUpload(q, i) == q.upload[i].kind = "UploadFile"
DecodeRaised(w) == \E k \in 1..Len(decoded[w]) : ~decoded[w][k].ok
DecodedAs(w, i, kind) ==
    \E k \in 1..Len(decoded[w]) : decoded[w][k].slot = i /\ decoded[w][k].kind = kind

\* C1: whenever the call into the service raised, the response does not
\* carry the success value 200 and carries no result data.
C1_ServiceFailureReported ==
    \A w \in Active :
        (Done(w) /\ env[w].svc \in ExcTexts) =>
            \A k \in 1..Len(resps[w]) :
                /\ Code(resps[w][k]) # 200
                /\ Data(resps[w][k]) \in {NoneV, StrV(<<>>)}

\* C2: two requests that differ only in the text of the exception the
\* service raised get identical responses.
C2_MessageIndependentOfExceptionText ==
    \A w1 \in Active, w2 \in Active :
        ( /\ Done(w1) /\ Done(w2)
          /\ req[w1] = req[w2]
          /\ env[w1].fault = env[w2].fault
          /\ env[w1].svc \in ExcTexts
          /\ env[w2].svc \in ExcTexts ) =>
            resps[w1] = resps[w2]

\* C3: the service is called only once every image of the request has been
\* decoded to bytes by decode_image, with exactly those bytes; when
\* decode_image raises for an image (also one whose string it cannot
\* decode), the service is never called.
C3_DecodeBeforeService ==
    \A w \in Active :
        LET q == req[w] IN
        /\ calls[w] # <<>> =>
              /\ ~DecodeRaised(w)
              /\ \A i \in Images(q.endpoint) :
                    /\ image_bytes[w][i].kind = "bytes"
                    /\ \E k \in 1..Len(decoded[w]) :
                          decoded[w][k].slot = i /\ decoded[w][k].ok
              /\ \A k \in 1..Len(calls[w]) :
                    calls[w][k].args = ServiceArgs(q.endpoint, image_bytes[w])
        /\ DecodeRaised(w) => calls[w] = <<>>
        /\ \A i \in Images(q.endpoint) :
              LET image == Or(q.upload[i], q.string[i]) IN
              (image.kind # "UploadFile" /\ ~decode_image(image).ok) => calls[w] = <<>>

\* a /slide_match request whose target was decoded and whose background made
\* decode_image raise: the handler is over and the service was never called
C3_Witness ==
    \E w \in Active :
        /\ req[w].endpoint = "slide_match"
        /\ Done(w)
        /\ Len(decoded[w]) = 2
        /\ decoded[w][1].ok /\ ~decoded[w][2].ok
        /\ calls[w] = <<>>

\* C4: empty image bytes never reach the service call.
C4_EmptyInputNeverReachesService ==
    \A w \in Active :
        \A k \in 1..Len(calls[w]) :
            \A j \in 1..Len(calls[w][k].args) :
                calls[w][k].args[j].val # <<>>

\* C5: a handler calls the service at most once and returns exactly one
\* response: it has a step to take until it has returned one, and none
\* after; once anything has failed the handler is over, so no further call
\* follows.
C5_NoRetry ==
    \A w \in Active :
        /\ Len(calls[w]) <= 1
        /\ Len(resps[w]) <= 1
        /\ Done(w) <=> Len(resps[w]) = 1
        /\ Done(w) <=> ~ENABLED Step(w)
        /\ ( \/ DecodeRaised(w)
             \/ env[w].fault # NoFault
             \/ env[w].svc \in ExcTexts ) => Done(w)
        /\ env[w].svc # "none" => Len(calls[w]) = 1

\* the service raised: one call, one response, the handler is over
C5_Witness ==
    \E w \in Active :
        /\ env[w].svc \in ExcTexts
        /\ Len(calls[w]) = 1 /\ Len(resps[w]) = 1 /\ Done(w)

\* C6: under every interleaving, the response of a finished request and the
\* calls it made into the service are those of the same handler run alone
\* on the request's own inputs.
C6_RequestIsolation ==
    \A w \in Active :
        Done(w) =>
            /\ resps[w] = <<RunAlone(req[w], env[w])[1]>>
            /\ calls[w] = RunAlone(req[w], env[w])[2]

\* two /slide_match requests with uploads have finished, one rejected and one
\* served
C6_Witness ==
    \E w1 \in Active, w2 \in Active :
        /\ Done(w1) /\ Done(w2)
        /\ req[w1].endpoint = "slide_match" /\ req[w2].endpoint = "slide_match"
        /\ IsUpload(req[w1], 1) /\ IsUpload(req[w2], 1)
        /\ Code(resps[w1][1]) # 200
        /\ Code(resps[w2][1]) = 200
        /\ Data(resps[w2][1]).kind = "result"

\* C7: a string decode_image cannot decode is answered with code 400 and
\* the detail 'Invalid base64 string'.
C7_InvalidBase64Is400 ==
    \A w \in Active :
        ( /\ req[w].endpoint \in {"ocr", "slide_match", "detection"}
          /\ Done(w)
          /\ \E k \in 1..Len(decoded[w]) :
                decoded[w][k].kind = "str" /\ ~decoded[w][k].ok ) =>
            /\ Len(resps[w]) = 1
            /\ Code(resps[w][1]) = 400
            /\ Message(resps[w][1]) = "Invalid base64 string"

\* the parts of C8 that do not depend on file operations succeeding
C8_Rejections(w) ==
    LET q == req[w]
        missing == Missing(q, 1) \/ Missing(q, 2)
        empty == \E i \in Slots : IsUpload(q, i) /\ q.upload[i].content = <<>>
    IN  /\ (missing \/ empty) =>
              /\ calls[w] = <<>>
              /\ Done(w) => Code(resps[w][1]) = 400
        /\ missing =>
              /\ \A i \in Slots : reads[FileId(w, i)] = 0
              /\ Done(w) => resps[w] = <<MissingResponse("slide_match")>>

C8_Supplied(q) ==
    /\ ~Missing(q, 1) /\ ~Missing(q, 2)
    /\ \A i \in Slots : IsUpload(q, i) => q.upload[i].content # <<>>

\* C8 as stated: missing or empty inputs are rejected with 400 without a
\* service call, the missing-input check comes before any read, and every
\* request whose target and background are each a non-empty upload or a
\* string reaches decoding.
C8_SlideValidation_Original ==
    \A w \in Active :
        req[w].endpoint = "slide_match" =>
            /\ C8_Rejections(w)
            /\ (C8_Supplied(req[w]) /\ Done(w)) => decoded[w] # <<>>

\* C8 amended: ... reaches decoding unless a read or seek of get_file_size
\* raised, in which case the upload counts as empty and the answer is 400.
C8_SlideValidation ==
    \A w \in Active :
        req[w].endpoint = "slide_match" =>
            /\ C8_Rejections(w)
            /\ (C8_Supplied(req[w]) /\ Done(w)) =>
                  IF env[w].fault.fn = "get_file_size"
                  THEN resps[w] = <<EmptyFileResponse>> /\ decoded[w] = <<>>
                  ELSE decoded[w] # <<>>

\* a non-empty target upload and a background string passed validation and
\* the target has been decoded
C8_Witness ==
    \E w \in Active :
        /\ req[w].endpoint = "slide_match"
        /\ IsUpload(req[w], 1) /\ req[w].upload[1].content # <<>>
        /\ ~IsUpload(req[w], 2) /\ req[w].string[2].kind = "str"
        /\ decoded[w] # <<>>

\* reads get_file_size needs for a file of n bytes: one per chunk and the
\* one that returns the empty chunk
SizeReads(n) == (n + ChunkSize - 1) \div ChunkSize + 1

\* C9: get_file_size counts every byte it has read, stops after the read
\* that returns the empty chunk (a bounded number of reads), has then counted
\* the whole file, and leaves the position at 0, so that decode_image reads
\* the complete upload and the service gets the uploaded bytes; a read or
\* seek that raises makes it return 0 and the request is rejected as empty.
C9_GetFileSize ==
    \A w \in Active :
        req[w].endpoint = "slide_match" =>
            LET q == req[w] IN
            /\ \A i \in Slots : IsUpload(q, i) =>
                  LET f == FileId(w, i)
                      content == q.upload[i].content
                      sizing == pc[w] \in {"get_file_size", "seek"} /\ slot[w] = i
                  IN  /\ reads[f] <= SizeReads(Len(content)) + 1
                      /\ sizing => size[Frame(w)] = fpos[f] /\ reads[f] <= SizeReads(Len(content))
                      /\ (pc[w] = "seek" /\ slot[w] = i) =>
                            size[Frame(w)] = Len(content) /\ reads[f] = SizeReads(Len(content))
                      /\ (~sizing /\ image_bytes[w][i] = NoneV /\ ~Done(w)) => fpos[f] = 0
                      /\ image_bytes[w][i] # NoneV => image_bytes[w][i] = BytesV(content)
                      /\ \A k \in 1..Len(calls[w]) : calls[w][k].args[i] = BytesV(content)
            /\ env[w].fault.fn = "get_file_size" =>
                  /\ resps[w] = <<EmptyFileResponse>>
                  /\ calls[w] = <<>> /\ decoded[w] = <<>>

\* a /slide_match request served with a target upload longer than one chunk
C9_Witness ==
    \E w \in Active :
        /\ req[w].endpoint = "slide_match"
        /\ IsUpload(req[w], 1) /\ Len(req[w].upload[1].content) > ChunkSize
        /\ Len(calls[w]) = 1
        /\ calls[w][1].args[1] = BytesV(req[w].upload[1].content)

\* C10: when an image comes as an upload, with or without a string, the
\* string is never decoded and the service gets the bytes of the upload (an
\* invalid string next to the upload does not make the request fail); the
\* string is decoded only when the upload is absent; in /slide_match an empty
\* upload is rejected even when a valid string comes with it.
C10_UploadPrecedence ==
    \A w \in Active :
        LET q == req[w] IN
        /\ \A i \in Images(q.endpoint) :
              /\ IsUpload(q, i) =>
                    /\ ~DecodedAs(w, i, "str")
                    /\ \A k \in 1..Len(calls[w]) :
                          calls[w][k].args[i] = BytesV(q.upload[i].content)
              /\ ~IsUpload(q, i) => ~DecodedAs(w, i, "UploadFile")
              /\ (q.endpoint = "slide_match" /\ IsUpload(q, i)
                    /\ q.upload[i].content = <<>> /\ Done(w)) =>
                    Code(resps[w][1]) = 400 /\ calls[w] = <<>>
        /\ ( /\ q.endpoint \in {"ocr", "detection"}
             /\ IsUpload(q, 1)
             /\ Done(w) /\ env[w].fault = NoFault /\ env[w].svc = "ok" ) =>
              resps[w] = <<Success(q.endpoint,
                             Result(ServiceFn(q.endpoint), <<BytesV(q.upload[1].content)>>))>>

\* /ocr served from an upload that came with an undecodable string
C10_Witness ==
    \E w \in Active :
        /\ req[w].endpoint = "ocr"
        /\ IsUpload(req[w], 1) /\ req[w].string[1] = InvalidStr
        /\ Done(w) /\ Code(resps[w][1]) = 200
        /\ calls[w][1].args[1] = BytesV(req[w].upload[1].content)

====
